---- MODULE Spec2Model ----
(***************************************************************************)
(* VergeOS MCP server: the power-state controller (powerOffVM) and the     *)
(* reconfiguration workflow (modifyVM) of the HTTP+SSE server              *)
(* (src/src/index.js, second VergeOSAPI class) and of the direct-          *)
(* connection server (src/local-proxy/index-direct.js), run against a      *)
(* backend whose machine status changes on its own.                        *)
(*                                                                         *)
(* Time is a millisecond clock.  It advances by the two setTimeout delays  *)
(* of the code and by backend latency, modelled as LatencyStep increments. *)
(***************************************************************************)
EXTENDS Integers, Sequences, FiniteSets, TLC

VARIABLES
    impl,            \* which server runs: "http" or "direct"
    vm,              \* backend: the VM row (machine, cpu_cores, ram)
    statuses,        \* backend: the /api/v4/machine_status list
    now,             \* Date.now() in ms
    drift,           \* number of latency increments spent so far in this invocation
    pc,              \* position inside the running tool invocation
    tool,            \* tool name of the running invocation
    args,            \* its argument object (optional fields are sets of size <= 1)
    caller,          \* who called powerOffVM: "tool" or "modify"
    opts,            \* powerOffVM's destructured options
    status,          \* powerOffVM: const status (first read)
    startTime,       \* powerOffVM: const startTime
    maxWait,         \* powerOffVM: const maxWait
    polls,           \* status reads made inside the poll loop
    lastPoll,        \* elapsed time and running flag of the latest loop poll
    timedOut,        \* the while condition was found false
    reads,           \* running flags of the first and the latest getVMStatus of this invocation
    calls,           \* backend requests sent in this invocation, per endpoint
    mvm,             \* modifyVM: const vm
    mstatus,         \* modifyVM: const status
    shutdownResult,  \* modifyVM: const shutdownResult
    lastUpdate,      \* body of the latest PUT /api/v4/vms/{id}
    result,          \* what the tool invocation produced
    message,         \* catalog: the request handed to every adapter
    failing,         \* catalog: backend endpoints that answer with an error
    served,          \* catalog: per adapter, the requests sent, the outcome and the response
    config,          \* request layer: which of VERGEOS_USER/PASS and VERGEOS_TOKEN are set
    token,           \* request layer: the cached credential (this.token, authToken)
    rpc,             \* request layer: position inside request() / apiRequest()
    wire,            \* request layer: requests put on the wire by the current call
    answers,         \* request layer: status codes of the API responses of the current call
    outcome,         \* request layer: what the call returned or threw
    history,         \* session: the tool calls that ended before the running one
    applied,         \* session: the requests per endpoint the stub backend has dealt with
    procs,           \* race: the two tool invocations in flight on the HTTP+SSE server
    twin,            \* request layer: position of the second request of a Promise.all
    drive            \* catalog: the backend row of the drive that resize_drive names

toolVars == <<impl, vm, statuses, now, drift, pc, tool, args, caller, opts,
              status, startTime, maxWait, polls, lastPoll, timedOut, reads,
              calls, mvm, mstatus, shutdownResult, lastUpdate, result>>
catalogVars == <<message, failing, served>>
reqVars == <<config, token, rpc, wire, answers, outcome>>
extVars == <<history, applied, procs, twin, drive>>
auxVars == <<catalogVars, reqVars, extVars>>
vars == <<toolVars, auxVars>>

backendVars == <<vm, statuses>>
poVars == <<opts, status, startTime, maxWait, polls, lastPoll, timedOut>>
modVars == <<mvm, mstatus, shutdownResult>>
callVars == <<tool, args>>

----------------------------------------------------------------------------
(* Bounds of the model *)

\* longest machine_status list the backend returns
MaxStatuses == 2
\* latency increments allowed per invocation
MaxDrift == 1
\* granularity of backend latency, in ms
LatencyStep == 500
\* API requests one backend call may put on the wire
MaxAttempts == 3
\* tool calls of one session
MaxCalls == 2

(* Program constants *)

pollInterval == 3000
MaxWaitCapSeconds == 300
KillSettleDelay == 2000
ModifyDefaultWait == 60
MsPerSecond == 1000
\* 1024 * 1024 * 1024 bytes; sizes are counted in MiB here, so that 1 GiB = 1024
GiB == 1024

----------------------------------------------------------------------------
(* Values *)

Impls == {"http", "direct"}

\* the VM row of the backend before any update, and the machine references
\* that can appear in the status list
InitialVm == [machine |-> 11, cpu_cores |-> 1, ram |-> 1024]
Machines == {InitialVm.machine, 12}

\* an optional argument: {} when absent, {v} when present
Absent == {}
Opt(S) == {Absent} \cup {{v} : v \in S}
Default(o, d) == IF o = {} THEN d ELSE CHOOSE v \in o : TRUE

\* argument values tried; an explicit force_after_timeout is tried only where
\* it differs from the default (false for power_off_vm, true for modify_vm)
WaitTimeouts == {-1, 0, 3, 6, 7, 301}
ModifyWaitTimeouts == {0, 3}
CpuValues == {0, 2}
RamValues == {2048}
PowerOffForce == {TRUE}
ModifyForce == {FALSE}

Endpoints == {"vms_get", "machine_status", "poweroff", "shutdown", "kill",
              "poweron", "reset", "vms_put"}
NoCalls == [e \in Endpoints |-> 0]
Bump(c, e) == [c EXCEPT ![e] = @ + 1]
ActionVerbs == {"poweroff", "shutdown", "kill", "poweron", "reset"}

RECURSIVE SumOver(_, _)
SumOver(f, S) ==
    IF S = {} THEN 0
    ELSE LET e == CHOOSE x \in S : TRUE IN f[e] + SumOver(f, S \ {e})
TotalCalls == SumOver(calls, Endpoints)

StatusEntry(m, r) ==
    [machine |-> m, running |-> r, status |-> IF r THEN "running" ELSE "stopped"]
Entries == {StatusEntry(m, r) : m \in Machines, r \in BOOLEAN}
RECURSIVE SeqsUpTo(_, _)
SeqsUpTo(S, n) ==
    IF n = 0 THEN {<<>>}
    ELSE LET shorter == SeqsUpTo(S, n - 1)
         IN shorter \cup
            {Append(s, e) : s \in {t \in shorter : Len(t) = n - 1}, e \in S}
StatusLists == SeqsUpTo(Entries, MaxStatuses)

\* the catalog boundary
Adapters == {"stdio", "http", "direct"}
ResourceUris == {"vergeos://cluster/status", "vergeos://vms/list",
                 "vergeos://networks/list", "vergeos://alarms/active"}
CatalogTools == {"power_on_vm", "reset_vm", "add_drive", "create_vm_snapshot",
                 "get_cluster_status", "list_vms", "list_networks",
                 "get_alarms", "resize_drive", "no_such_tool"}
\* arguments of add_drive and create_vm_snapshot, each possibly left out, and
\* of resize_drive; new_size_gb is a JSON number, held here as a count of
\* quarters of a GB (40 is 10 GB, 41 is 10.25 GB)
ToolArgs == [name : Opt({"data"}), size_gb : Opt({0, 10}), new_size_gb : {Absent}]
NoToolArgs == [name |-> Absent, size_gb |-> Absent, new_size_gb |-> Absent]
Messages ==
    UNION {{[method |-> "tools/call", name |-> t, arguments |-> a] :
               a \in CASE t \in {"add_drive", "create_vm_snapshot"} -> ToolArgs
                       [] t = "resize_drive" ->
                            {[NoToolArgs EXCEPT !.new_size_gb = {q}] :
                                q \in {36, 40, 41, 42, 44, 48}}
                       [] OTHER -> {NoToolArgs}} : t \in CatalogTools}
    \cup {[method |-> "resources/read", name |-> u, arguments |-> NoToolArgs] :
            u \in ResourceUris}
CatalogEndpoints == {"vms_get", "machine_status", "poweron", "reset",
                     "vms_list", "cluster_status", "vnets", "alarms",
                     "drives_post", "snapshots_post", "drives_get",
                     "drives_put"}
NotServed == [reqs |-> <<>>, out |-> [pending |-> TRUE],
              response |-> [pending |-> TRUE]]

\* the request layer
Unauthorized == 401
Statuses == {200, Unauthorized, 500}
ResponseOk(st) == st >= 200 /\ st < 300
NoCred == [kind |-> "none"]
StaticCred == [kind |-> "static"]
LoginCred(n) == [kind |-> "login", n |-> n]

\* an invocation of the race that has not begun
NoProc == [tool |-> "none", pc |-> "idle",
           args |-> [cpu_cores |-> Absent, ram_mb |-> Absent],
           saw |-> {}, order |-> 0]

NoStatus == [running |-> FALSE]
NoPoll == [elapsed |-> -1, running |-> TRUE]
NoResult == [pending |-> TRUE]
NoArgs == [wait_timeout |-> Absent, force_after_timeout |-> Absent,
           cpu_cores |-> Absent, ram_mb |-> Absent,
           shutdown_if_running |-> Absent]

----------------------------------------------------------------------------
(* Pure functions of the code *)

\* statuses.find(s => s.machine === vm.machine): index of the first match, 0 if none
Find(list, m) ==
    IF \E i \in 1..Len(list) : list[i].machine = m
    THEN CHOOSE i \in 1..Len(list) :
            /\ list[i].machine = m
            /\ \A j \in 1..(i - 1) : list[j].machine # m
    ELSE 0

\* getVMStatus of the HTTP+SSE server
HttpGetVMStatus(list, v) ==
    LET i == Find(list, v.machine)
    IN IF i = 0
       THEN [running |-> FALSE, power_state |-> "unknown"]
       ELSE [running |-> list[i].running, power_state |-> list[i].status]

\* getVMStatus of the direct server
DirectGetVMStatus(list, v) ==
    LET i == Find(list, v.machine)
        r == IF i = 0 THEN FALSE ELSE list[i].running
    IN [running |-> r, power_state |-> IF r THEN "running" ELSE "stopped"]

GetVMStatus(list, v) ==
    IF impl = "http" THEN HttpGetVMStatus(list, v) ELSE DirectGetVMStatus(list, v)

Min(a, b) == IF a < b THEN a ELSE b

\* the cap forgotten: wait_timeout * 1000
MaxWaitOf_Unclamped(wait_timeout) == wait_timeout * MsPerSecond

\* Math.min(wait_timeout, 300) * 1000
MaxWaitOf(wait_timeout) == Min(wait_timeout, MaxWaitCapSeconds) * MsPerSecond

\* Math.round(ms / 1000) for ms >= 0
RoundSeconds(ms) == (ms + (MsPerSecond \div 2)) \div MsPerSecond

\* the early return left out: every call goes on to the loop
NoWaitRequested_Never(wait_timeout) == FALSE

\* if (wait_timeout <= 0) return immediately
NoWaitRequested(wait_timeout) == wait_timeout <= 0

\* while (Date.now() - startTime < maxWait)
LoopContinues(t, start, limit) == t - start < limit

\* the test inverted: a running VM is taken for a stopped one
AlreadyStopped_Inverted(s) == s.running

\* if (!status.running) return "already stopped"
AlreadyStopped(s) == ~s.running

\* the test inverted: if (currentStatus.running) return
PollSaysStopped_Inverted(s) == s.running

\* if (!currentStatus.running) return "shut down gracefully"
PollSaysStopped(s) == ~s.running

\* the escalation branch never taken
ShouldForce_Never(o) == FALSE

\* if (force_after_timeout)
ShouldForce(o) == o.force_after_timeout

\* JavaScript truthiness of an optional number: undefined and 0 are falsy
Truthy(o) == o # {} /\ Default(o, 0) # 0

\* the check written as a comparison with 0, which undefined does not satisfy
NothingToModify_ZeroOnly(a) == a.cpu_cores = {0} /\ a.ram_mb = {0}

\* if (!cpu_cores && !ram_mb)
NothingToModify(a) == ~Truthy(a.cpu_cores) /\ ~Truthy(a.ram_mb)

\* a body that always carries both fields
Changes_Always(a) ==
    [cpu_cores |-> {Default(a.cpu_cores, 0)}, ram |-> {Default(a.ram_mb, 0)}]

\* const changes = {}; if (cpu_cores) ...; if (ram_mb) ...
Changes(a) ==
    [cpu_cores |-> IF Truthy(a.cpu_cores) THEN a.cpu_cores ELSE Absent,
     ram |-> IF Truthy(a.ram_mb) THEN a.ram_mb ELSE Absent]

\* the backend applies a PUT body: only the fields it carries change
ApplyUpdate(v, body) ==
    [v EXCEPT !.cpu_cores = Default(body.cpu_cores, @),
              !.ram = Default(body.ram, @)]

\* cpu_cores || vm.cpu_cores
OrElse(o, d) == IF Truthy(o) THEN Default(o, d) ELSE d

\* shutdownResult.message?.includes("already stopped")
MessageSaysAlreadyStopped(r) ==
    "message" \in DOMAIN r /\ r.message = "already stopped"

\* if (!shutdownResult.success && !shutdownResult.message?.includes(...))
ShutdownFailed(r) == ~r.success /\ ~MessageSaysAlreadyStopped(r)

Returned(r) == "success" \in DOMAIN r
Threw(r) == "thrown" \in DOMAIN r
Has(r, f) == f \in DOMAIN r

----------------------------------------------------------------------------
\* no tool invocation has started
ToolsIdle ==
    /\ vm = InitialVm
    /\ now = 0
    /\ drift = 0
    /\ pc = "idle"
    /\ tool = "none"
    /\ args = NoArgs
    /\ caller = "tool"
    /\ opts = [wait_timeout |-> 0, force_after_timeout |-> FALSE]
    /\ status = NoStatus
    /\ startTime = 0
    /\ maxWait = 0
    /\ polls = 0
    /\ lastPoll = NoPoll
    /\ timedOut = FALSE
    /\ reads = [first |-> {}, last |-> {}]
    /\ calls = NoCalls
    /\ mvm = vm
    /\ mstatus = NoStatus
    /\ shutdownResult = NoResult
    /\ lastUpdate = [cpu_cores |-> Absent, ram |-> Absent]
    /\ result = NoResult

\* no message has been handed to the adapters
CatalogIdle ==
    /\ message = [method |-> "none", name |-> "none", arguments |-> NoToolArgs]
    /\ failing = {}
    /\ served = [a \in Adapters |-> NotServed]

\* no backend call is in progress
RequestIdle ==
    /\ config = [pair |-> TRUE, static |-> FALSE]
    /\ token = NoCred
    /\ rpc = "idle"
    /\ wire = <<>>
    /\ answers = <<>>
    /\ outcome = NoResult

\* no session, race or twin request has started
ExtIdle ==
    /\ history = <<>>
    /\ applied = NoCalls
    /\ procs = [p \in {1, 2} |-> NoProc]
    /\ twin = "none"
    /\ drive = [disksize |-> 10 * GiB]

Init ==
    /\ impl \in Impls
    /\ statuses \in StatusLists
    /\ ToolsIdle
    /\ CatalogIdle
    /\ RequestIdle
    /\ ExtIdle

----------------------------------------------------------------------------
(* Control transfer *)

Running == pc \notin {"idle", "done"}

Goto(p) == pc' = p /\ UNCHANGED <<result, shutdownResult>>

\* the tool invocation ends with a value
ToolReturn(r) == pc' = "done" /\ result' = r /\ UNCHANGED shutdownResult

\* an exception leaves the tool function (modifyVM has no try/catch either)
Throw(e) == pc' = "done" /\ result' = [thrown |-> e] /\ UNCHANGED shutdownResult

\* powerOffVM returns r, to the tool boundary or to modifyVM
Return(r) ==
    IF caller = "modify"
    THEN pc' = "m_after" /\ shutdownResult' = r /\ UNCHANGED result
    ELSE ToolReturn(r)

\* getVMStatus returned a snapshot with this running flag
NoteRead(r) ==
    [first |-> IF reads.first = {} THEN {r} ELSE reads.first, last |-> {r}]

\* backend requests of one getVMStatus call; fail = 1 or 2 names the request
\* that is answered with an error, 0 means both succeed
StatusCalls(fail) ==
    IF fail = 1 THEN Bump(calls, "vms_get")
    ELSE Bump(Bump(calls, "vms_get"), "machine_status")

\* verb of the graceful action
GracefulVerb == IF impl = "http" THEN "poweroff" ELSE "shutdown"

----------------------------------------------------------------------------
(* Results of powerOffVM *)

AlreadyStoppedResult(s) ==
    [success |-> TRUE, message |-> "already stopped",
     current_state |-> s.power_state, was_running |-> FALSE]

NoWaitResult(s) ==
    IF impl = "http"
    THEN [success |-> TRUE, message |-> "Graceful shutdown command sent",
          previous_state |-> s.power_state,
          note |-> "Use wait_timeout parameter to wait for shutdown completion"]
    ELSE [success |-> TRUE, message |-> "Shutdown signal sent"]

GracefulResult(s, elapsed) ==
    IF impl = "http"
    THEN [success |-> TRUE, message |-> "shut down gracefully",
          final_state |-> s.power_state,
          elapsed_seconds |-> RoundSeconds(elapsed)]
    ELSE [success |-> TRUE, message |-> "VM shut down gracefully",
          waited_seconds |-> RoundSeconds(elapsed)]

ForcedResult(s, elapsed) ==
    [success |-> TRUE, message |-> "forced power off",
     final_state |-> s.power_state, forced |-> TRUE,
     elapsed_seconds |-> RoundSeconds(elapsed)]

DirectForcedResult ==
    [success |-> TRUE, message |-> "VM force powered off after timeout",
     forced |-> TRUE]

TimeoutResult(s, elapsed) ==
    [success |-> FALSE, error |-> "did not shut down within wait_timeout",
     current_state |-> s.power_state,
     elapsed_seconds |-> RoundSeconds(elapsed),
     hint |-> "Use force_after_timeout=true to automatically force shutdown after timeout"]

DirectTimeoutResult ==
    [success |-> FALSE, message |-> "Shutdown timed out", timeout |-> TRUE]

----------------------------------------------------------------------------
(* The tool power_off_vm *)

\* executeTool, case "power_off_vm": both servers end with wait_timeout = 0 and
\* force_after_timeout = false when the caller leaves them out
InvokePowerOff ==
    /\ pc = "idle"
    /\ \E w \in Opt(WaitTimeouts), f \in Opt(PowerOffForce) :
          /\ args' = [NoArgs EXCEPT !.wait_timeout = w, !.force_after_timeout = f]
          /\ opts' = [wait_timeout |-> Default(w, 0),
                      force_after_timeout |-> Default(f, FALSE)]
    /\ tool' = "power_off_vm"
    /\ caller' = "tool"
    /\ pc' = IF impl = "http" THEN "po_status" ELSE "po_action"
    /\ UNCHANGED <<auxVars, impl, backendVars, now, drift, status, startTime, maxWait,
                   polls, lastPoll, timedOut, reads, calls, modVars,
                   lastUpdate, result>>

\* const status = await this.getVMStatus(id); if (!status.running) return ...
ReadInitialStatus ==
    /\ pc = "po_status"
    /\ \E fail \in 0..2 :
          /\ calls' = StatusCalls(fail)
          /\ IF fail # 0
             THEN /\ Throw("API Error")
                  /\ UNCHANGED <<status, reads>>
             ELSE LET s == GetVMStatus(statuses, vm)
                  IN /\ status' = s
                     /\ reads' = NoteRead(s.running)
                     /\ IF AlreadyStopped(s)
                        THEN Return(AlreadyStoppedResult(s))
                        ELSE Goto("po_action")
    /\ UNCHANGED <<auxVars, impl, backendVars, now, drift, callVars, caller, opts,
                   startTime, maxWait, polls, lastPoll, timedOut, mvm, mstatus,
                   lastUpdate>>

\* await this.vmAction(id, "poweroff"), then the no-wait return or the loop set-up
SendGraceful ==
    /\ pc = "po_action"
    /\ calls' = Bump(calls, GracefulVerb)
    /\ \E ok \in BOOLEAN :
          IF ~ok
          THEN /\ Throw("API Error")
               /\ UNCHANGED <<startTime, maxWait>>
          ELSE IF NoWaitRequested(opts.wait_timeout)
          THEN /\ Return(NoWaitResult(status))
               /\ UNCHANGED <<startTime, maxWait>>
          ELSE /\ startTime' = now
               /\ maxWait' = MaxWaitOf(opts.wait_timeout)
               /\ Goto("po_loop")
    /\ UNCHANGED <<auxVars, impl, backendVars, now, drift, callVars, caller, opts, status,
                   polls, lastPoll, timedOut, reads, mvm, mstatus, lastUpdate>>

\* the while condition, and what follows the loop when it is false
LoopCheck ==
    /\ pc = "po_loop"
    /\ IF LoopContinues(now, startTime, maxWait)
       THEN /\ Goto("po_sleep")
            /\ UNCHANGED timedOut
       ELSE /\ timedOut' = TRUE
            /\ IF ShouldForce(opts) THEN Goto("po_kill")
               ELSE IF impl = "http" THEN Goto("po_final")
               ELSE Return(DirectTimeoutResult)
    /\ UNCHANGED <<auxVars, impl, backendVars, now, drift, callVars, caller, opts, status,
                   startTime, maxWait, polls, lastPoll, reads, calls, mvm,
                   mstatus, lastUpdate>>

\* await new Promise(resolve => setTimeout(resolve, pollInterval))
Sleep ==
    /\ pc = "po_sleep"
    /\ now' = now + pollInterval
    /\ Goto("po_poll")
    /\ UNCHANGED <<auxVars, impl, backendVars, drift, callVars, caller, poVars, reads,
                   calls, mvm, mstatus, lastUpdate>>

\* the poll with the expiry tested before the status: a stop seen at or after
\* the deadline is not taken as a graceful shutdown
Poll_ExpiryFirst ==
    /\ pc = "po_poll"
    /\ \E fail \in 0..2 :
          /\ calls' = StatusCalls(fail)
          /\ IF fail # 0
             THEN /\ Throw("API Error")
                  /\ UNCHANGED <<polls, lastPoll, reads>>
             ELSE LET s == GetVMStatus(statuses, vm)
                  IN /\ polls' = polls + 1
                     /\ lastPoll' = [elapsed |-> now - startTime,
                                     running |-> s.running]
                     /\ reads' = NoteRead(s.running)
                     /\ IF LoopContinues(now, startTime, maxWait) /\ PollSaysStopped(s)
                        THEN Return(GracefulResult(s, now - startTime))
                        ELSE Goto("po_loop")
    /\ UNCHANGED <<auxVars, impl, backendVars, now, drift, callVars, caller, opts, status,
                   startTime, maxWait, timedOut, mvm, mstatus, lastUpdate>>

\* const currentStatus = await this.getVMStatus(id); if (!currentStatus.running) return ...
Poll ==
    /\ pc = "po_poll"
    /\ \E fail \in 0..2 :
          /\ calls' = StatusCalls(fail)
          /\ IF fail # 0
             THEN /\ Throw("API Error")
                  /\ UNCHANGED <<polls, lastPoll, reads>>
             ELSE LET s == GetVMStatus(statuses, vm)
                  IN /\ polls' = polls + 1
                     /\ lastPoll' = [elapsed |-> now - startTime,
                                     running |-> s.running]
                     /\ reads' = NoteRead(s.running)
                     /\ IF PollSaysStopped(s)
                        THEN Return(GracefulResult(s, now - startTime))
                        ELSE Goto("po_loop")
    /\ UNCHANGED <<auxVars, impl, backendVars, now, drift, callVars, caller, opts, status,
                   startTime, maxWait, timedOut, mvm, mstatus, lastUpdate>>

\* await this.vmAction(id, "kill") / await forceOffVM(id)
SendKill ==
    /\ pc = "po_kill"
    /\ calls' = Bump(calls, "kill")
    /\ \E ok \in BOOLEAN :
          IF ~ok THEN Throw("API Error")
          ELSE IF impl = "http" THEN Goto("po_settle")
          ELSE Return(DirectForcedResult)
    /\ UNCHANGED <<auxVars, impl, backendVars, now, drift, callVars, caller, poVars,
                   reads, mvm, mstatus, lastUpdate>>

\* await new Promise(resolve => setTimeout(resolve, 2000))
Settle ==
    /\ pc = "po_settle"
    /\ now' = now + KillSettleDelay
    /\ Goto("po_forced_final")
    /\ UNCHANGED <<auxVars, impl, backendVars, drift, callVars, caller, poVars, reads,
                   calls, mvm, mstatus, lastUpdate>>

\* const finalStatus = await this.getVMStatus(id); return { success: true, forced: true, ... }
ReadForcedStatus ==
    /\ pc = "po_forced_final"
    /\ \E fail \in 0..2 :
          /\ calls' = StatusCalls(fail)
          /\ IF fail # 0
             THEN /\ Throw("API Error")
                  /\ UNCHANGED reads
             ELSE LET s == GetVMStatus(statuses, vm)
                  IN /\ reads' = NoteRead(s.running)
                     /\ Return(ForcedResult(s, now - startTime))
    /\ UNCHANGED <<auxVars, impl, backendVars, now, drift, callVars, caller, poVars,
                   mvm, mstatus, lastUpdate>>

\* const currentStatus = await this.getVMStatus(id); return { success: false, ... }
ReadTimeoutStatus ==
    /\ pc = "po_final"
    /\ \E fail \in 0..2 :
          /\ calls' = StatusCalls(fail)
          /\ IF fail # 0
             THEN /\ Throw("API Error")
                  /\ UNCHANGED reads
             ELSE LET s == GetVMStatus(statuses, vm)
                  IN /\ reads' = NoteRead(s.running)
                     /\ Return(TimeoutResult(s, now - startTime))
    /\ UNCHANGED <<auxVars, impl, backendVars, now, drift, callVars, caller, poVars,
                   mvm, mstatus, lastUpdate>>

----------------------------------------------------------------------------
(* Results of modifyVM *)

NothingToModifyResult ==
    [success |-> FALSE, error |-> "Must specify cpu_cores and/or ram_mb to modify"]

RunningRefusedResult(v, s, a) ==
    [success |-> FALSE, error |-> "is currently running",
     current_state |-> s.power_state,
     current_cpu |-> v.cpu_cores, current_ram_mb |-> v.ram,
     requested_cpu |-> OrElse(a.cpu_cores, v.cpu_cores),
     requested_ram_mb |-> OrElse(a.ram_mb, v.ram),
     hint |-> "Set shutdown_if_running=true to automatically shut down the VM"]

\* error: `Failed to shut down VM '${vm.name}': ${shutdownResult.error}`
ShutdownFailedResult(r) ==
    [success |-> FALSE,
     error |-> <<"Failed to shut down VM",
                 IF "error" \in DOMAIN r THEN r.error ELSE "undefined">>,
     shutdown_result |-> r]

ModifiedResult(v, s, a) ==
    IF impl = "http"
    THEN [success |-> TRUE, message |-> "modified successfully",
          previous_cpu |-> v.cpu_cores, previous_ram_mb |-> v.ram,
          new_cpu |-> OrElse(a.cpu_cores, v.cpu_cores),
          new_ram_mb |-> OrElse(a.ram_mb, v.ram),
          was_running |-> s.running,
          note |-> IF s.running
                   THEN "VM was shut down to apply changes. Use power_on_vm to restart it."
                   ELSE "VM is stopped. Use power_on_vm to start it with new settings."]
    ELSE [success |-> TRUE,
          previous_cpu |-> v.cpu_cores, previous_ram_mb |-> v.ram,
          new_cpu |-> OrElse(a.cpu_cores, v.cpu_cores),
          new_ram_mb |-> OrElse(a.ram_mb, v.ram)]

----------------------------------------------------------------------------
(* The tool modify_vm *)

\* executeTool, case "modify_vm"
InvokeModify ==
    /\ pc = "idle"
    /\ \E c \in Opt(CpuValues), r \in Opt(RamValues), sir \in Opt(BOOLEAN),
          w \in Opt(ModifyWaitTimeouts), f \in Opt(ModifyForce) :
          args' = [cpu_cores |-> c, ram_mb |-> r, shutdown_if_running |-> sir,
                   wait_timeout |-> w, force_after_timeout |-> f]
    /\ tool' = "modify_vm"
    /\ pc' = "m_start"
    /\ UNCHANGED <<auxVars, impl, backendVars, now, drift, caller, poVars, reads,
                   calls, modVars, lastUpdate, result>>

\* if (!cpu_cores && !ram_mb) return / throw
ModifyValidate ==
    /\ pc = "m_start"
    /\ IF NothingToModify(args)
       THEN IF impl = "http" THEN ToolReturn(NothingToModifyResult)
            ELSE Throw("Specify cpu_cores and/or ram_mb")
       ELSE Goto(IF impl = "http" THEN "m_getvm" ELSE "m_status")
    /\ UNCHANGED <<auxVars, impl, backendVars, now, drift, callVars, caller, poVars,
                   reads, calls, mvm, mstatus, lastUpdate>>

\* const vm = await this.getVM(vmId): two requests issued together
ModifyGetVM ==
    /\ pc = "m_getvm"
    /\ calls' = Bump(Bump(calls, "vms_get"), "machine_status")
    /\ \E ok \in BOOLEAN :
          IF ok THEN mvm' = vm /\ Goto("m_status")
          ELSE Throw("API Error") /\ UNCHANGED mvm
    /\ UNCHANGED <<auxVars, impl, backendVars, now, drift, callVars, caller, poVars,
                   reads, mstatus, lastUpdate>>

\* const status = await this.getVMStatus(vmId), the running check and the
\* call of powerOffVM
ModifyReadStatus ==
    /\ pc = "m_status"
    /\ \E fail \in 0..2 :
          /\ calls' = StatusCalls(fail)
          /\ IF fail # 0
             THEN /\ Throw("API Error")
                  /\ UNCHANGED <<mstatus, reads, caller, opts>>
             ELSE LET s == GetVMStatus(statuses, vm)
                  IN /\ mstatus' = s
                     /\ reads' = NoteRead(s.running)
                     /\ IF ~s.running
                        THEN /\ Goto(IF impl = "http" THEN "m_update" ELSE "m_readvm")
                             /\ UNCHANGED <<caller, opts>>
                        ELSE IF ~Default(args.shutdown_if_running, FALSE)
                        THEN /\ IF impl = "http"
                                THEN ToolReturn(RunningRefusedResult(mvm, s, args))
                                ELSE Throw("VM is running. Set shutdown_if_running=true to shut down first.")
                             /\ UNCHANGED <<caller, opts>>
                        ELSE /\ caller' = "modify"
                             /\ opts' = [wait_timeout |->
                                            Default(args.wait_timeout, ModifyDefaultWait),
                                         force_after_timeout |->
                                            Default(args.force_after_timeout, TRUE)]
                             /\ Goto(IF impl = "http" THEN "po_status" ELSE "po_action")
    /\ UNCHANGED <<auxVars, impl, backendVars, now, drift, callVars, status, startTime,
                   maxWait, polls, lastPoll, timedOut, mvm, lastUpdate>>

\* the statement after `await powerOffVM(...)`
ModifyAfterPowerOff ==
    /\ pc = "m_after"
    /\ IF impl = "http"
       THEN IF ShutdownFailed(shutdownResult)
            THEN ToolReturn(ShutdownFailedResult(shutdownResult))
            ELSE Goto("m_update")
       ELSE Goto("m_readvm")
    /\ UNCHANGED <<auxVars, impl, backendVars, now, drift, callVars, caller, poVars,
                   reads, calls, mvm, mstatus, lastUpdate>>

\* const vm = await apiRequest(`/api/v4/vms/${id}`) of the direct server
ModifyReadVM ==
    /\ pc = "m_readvm"
    /\ calls' = Bump(calls, "vms_get")
    /\ \E ok \in BOOLEAN :
          IF ok THEN mvm' = vm /\ Goto("m_update")
          ELSE Throw("API Error") /\ UNCHANGED mvm
    /\ UNCHANGED <<auxVars, impl, backendVars, now, drift, callVars, caller, poVars,
                   reads, mstatus, lastUpdate>>

\* the PUT request and the success result
ModifyUpdate ==
    /\ pc = "m_update"
    /\ calls' = Bump(calls, "vms_put")
    /\ lastUpdate' = Changes(args)
    /\ \E ok \in BOOLEAN :
          IF ok
          THEN /\ vm' = ApplyUpdate(vm, Changes(args))
               /\ ToolReturn(ModifiedResult(mvm, mstatus, args))
          ELSE /\ Throw("API Error")
               /\ UNCHANGED vm
    /\ UNCHANGED <<auxVars, impl, statuses, now, drift, callVars, caller, poVars,
                   reads, mvm, mstatus>>

ModifyNext ==
    \/ InvokeModify
    \/ ModifyValidate
    \/ ModifyGetVM
    \/ ModifyReadStatus
    \/ ModifyAfterPowerOff
    \/ ModifyReadVM
    \/ ModifyUpdate

----------------------------------------------------------------------------
(* The tools power_on_vm and reset_vm *)

\* a pre-check that never refuses
PowerOnRefuses_Never(s) == FALSE

\* powerOnVM: if (status.running) return { success: false, ... }
PowerOnRefuses(s) == s.running

\* resetVM: if (!status.running) return { success: false, ... }
ResetRefuses(s) == ~s.running

AlreadyRunningResult(s) ==
    [success |-> FALSE, error |-> "already running",
     current_state |-> s.power_state]

NotRunningResult(s) ==
    [success |-> FALSE, error |-> "not running - cannot reset",
     current_state |-> s.power_state]

ActionSentResult(s, verb) ==
    [success |-> TRUE, message |-> <<verb, "command sent">>,
     previous_state |-> s.power_state]

\* the direct server hands the backend's answer to vm_actions to the caller
ActionResponse(verb) == [response |-> verb]

\* executeTool, case "power_on_vm"
InvokePowerOn ==
    /\ pc = "idle"
    /\ tool' = "power_on_vm"
    /\ pc' = IF impl = "http" THEN "on_status" ELSE "on_action"
    /\ UNCHANGED <<auxVars, impl, backendVars, now, drift, args, caller, poVars, reads,
                   calls, modVars, lastUpdate, result>>

\* powerOnVM: const status = await this.getVMStatus(id) and the pre-check
PowerOnReadStatus ==
    /\ pc = "on_status"
    /\ \E fail \in 0..2 :
          /\ calls' = StatusCalls(fail)
          /\ IF fail # 0
             THEN /\ Throw("API Error")
                  /\ UNCHANGED <<status, reads>>
             ELSE LET s == GetVMStatus(statuses, vm)
                  IN /\ status' = s
                     /\ reads' = NoteRead(s.running)
                     /\ IF PowerOnRefuses(s)
                        THEN ToolReturn(AlreadyRunningResult(s))
                        ELSE Goto("on_action")
    /\ UNCHANGED <<auxVars, impl, backendVars, now, drift, callVars, caller, opts,
                   startTime, maxWait, polls, lastPoll, timedOut, mvm, mstatus,
                   lastUpdate>>

\* await this.vmAction(id, "poweron") and the return
PowerOnSend ==
    /\ pc = "on_action"
    /\ calls' = Bump(calls, "poweron")
    /\ \E ok \in BOOLEAN :
          IF ok
          THEN ToolReturn(IF impl = "http" THEN ActionSentResult(status, "poweron")
                          ELSE ActionResponse("poweron"))
          ELSE Throw("API Error")
    /\ UNCHANGED <<auxVars, impl, backendVars, now, drift, callVars, caller, poVars,
                   reads, mvm, mstatus, lastUpdate>>

\* executeTool, case "reset_vm"
InvokeReset ==
    /\ pc = "idle"
    /\ tool' = "reset_vm"
    /\ pc' = IF impl = "http" THEN "rs_status" ELSE "rs_action"
    /\ UNCHANGED <<auxVars, impl, backendVars, now, drift, args, caller, poVars, reads,
                   calls, modVars, lastUpdate, result>>

\* resetVM: const status = await this.getVMStatus(id) and the pre-check
ResetReadStatus ==
    /\ pc = "rs_status"
    /\ \E fail \in 0..2 :
          /\ calls' = StatusCalls(fail)
          /\ IF fail # 0
             THEN /\ Throw("API Error")
                  /\ UNCHANGED <<status, reads>>
             ELSE LET s == GetVMStatus(statuses, vm)
                  IN /\ status' = s
                     /\ reads' = NoteRead(s.running)
                     /\ IF ResetRefuses(s)
                        THEN ToolReturn(NotRunningResult(s))
                        ELSE Goto("rs_action")
    /\ UNCHANGED <<auxVars, impl, backendVars, now, drift, callVars, caller, opts,
                   startTime, maxWait, polls, lastPoll, timedOut, mvm, mstatus,
                   lastUpdate>>

\* await this.vmAction(id, "reset") and the return
ResetSend ==
    /\ pc = "rs_action"
    /\ calls' = Bump(calls, "reset")
    /\ \E ok \in BOOLEAN :
          IF ok
          THEN ToolReturn(IF impl = "http" THEN ActionSentResult(status, "reset")
                          ELSE ActionResponse("reset"))
          ELSE Throw("API Error")
    /\ UNCHANGED <<auxVars, impl, backendVars, now, drift, callVars, caller, poVars,
                   reads, mvm, mstatus, lastUpdate>>

----------------------------------------------------------------------------
(* The environment *)

\* a backend response takes time
Latency ==
    /\ Running
    /\ drift < MaxDrift
    /\ now' = now + LatencyStep
    /\ drift' = drift + 1
    /\ UNCHANGED <<auxVars, impl, backendVars, pc, callVars, caller, poVars, reads,
                   calls, modVars, lastUpdate, result>>

\* a machine starts or stops (guest shutdown, an earlier action taking effect,
\* another client); once the invocation has ended nothing reads the list again
MachineFlips ==
    /\ pc # "done"
    /\ \E i \in 1..Len(statuses) :
          statuses' = [statuses EXCEPT
                          ![i] = StatusEntry(@.machine, ~@.running)]
    /\ UNCHANGED <<auxVars, impl, vm, now, drift, pc, callVars, caller, poVars, reads,
                   calls, modVars, lastUpdate, result>>

PowerOffNext ==
    \/ InvokePowerOff
    \/ ReadInitialStatus
    \/ SendGraceful
    \/ LoopCheck
    \/ Sleep
    \/ Poll
    \/ SendKill
    \/ Settle
    \/ ReadForcedStatus
    \/ ReadTimeoutStatus

Next ==
    \/ PowerOffNext
    \/ ModifyNext
    \/ InvokePowerOn
    \/ PowerOnReadStatus
    \/ PowerOnSend
    \/ InvokeReset
    \/ ResetReadStatus
    \/ ResetSend
    \/ Latency
    \/ MachineFlips

Spec == Init /\ [][Next]_vars

\* the status list holds the row of the VM's machine or no row: the rows of
\* other machines have no part in the control flow of powerOffVM
PowerOffInit ==
    /\ Init
    /\ \A i \in 1..Len(statuses) : i = 1 /\ statuses[i].machine = vm.machine

\* power_off_vm alone, with its steps taken whenever they can be: every await
\* of powerOffVM is a backend call that returns or a timer that fires
PowerOffSpec ==
    /\ PowerOffInit
    /\ [][PowerOffNext \/ Latency \/ MachineFlips]_vars
    /\ WF_vars(PowerOffNext)

----------------------------------------------------------------------------
(* A session against a stub backend.  Tool calls follow one another on the  *)
(* same backend, the status list changes only through the power actions the *)
(* tools send, and the stub applies an action it accepted before it answers *)
(* any other request.                                                       *)

\* the stub deals with the requests it received.  POST /api/v4/vm_actions:
\* the machine of the VM runs after poweron and reset, and is stopped after
\* poweroff, shutdown and kill; a read, and a request the stub answered with
\* an error, change nothing
StubApplies ==
    /\ calls # applied
    /\ LET sent == {v \in ActionVerbs : calls[v] > applied[v]}
           turnsOn == sent \subseteq {"poweron", "reset"}
       IN statuses' =
             IF sent = {} \/ Threw(result) THEN statuses
             ELSE [i \in 1..Len(statuses) |->
                     IF statuses[i].machine = vm.machine
                     THEN StatusEntry(vm.machine, turnsOn)
                     ELSE statuses[i]]
    /\ applied' = calls
    /\ UNCHANGED <<catalogVars, reqVars, history, procs, twin, drive, impl, vm, now, drift, pc,
                   callVars, caller, poVars, reads, calls, modVars, lastUpdate,
                   result>>

\* the client's next tools/call: the call that ended goes to the history and
\* the server is ready for another one, against the backend as it is
NextCall ==
    /\ pc = "done"
    /\ calls = applied
    /\ Len(history) + 1 < MaxCalls
    /\ history' = Append(history,
                         [tool |-> tool, threw |-> Threw(result),
                          sent |-> {v \in ActionVerbs : calls[v] > 0}])
    /\ pc' = "idle"
    /\ tool' = "none"
    /\ args' = NoArgs
    /\ caller' = "tool"
    /\ opts' = [wait_timeout |-> 0, force_after_timeout |-> FALSE]
    /\ status' = NoStatus
    /\ mstatus' = NoStatus
    /\ startTime' = 0
    /\ maxWait' = 0
    /\ polls' = 0
    /\ lastPoll' = NoPoll
    /\ timedOut' = FALSE
    /\ reads' = [first |-> {}, last |-> {}]
    /\ calls' = NoCalls
    /\ applied' = NoCalls
    /\ shutdownResult' = NoResult
    /\ result' = NoResult
    /\ UNCHANGED <<catalogVars, reqVars, procs, twin, drive, impl, backendVars,
                   now, drift, mvm, lastUpdate>>

StubNext ==
    \/ calls = applied /\ InvokePowerOn
    \/ calls = applied /\ PowerOnReadStatus
    \/ calls = applied /\ PowerOnSend
    \/ calls = applied /\ InvokePowerOff
    \/ calls = applied /\ ReadInitialStatus
    \/ calls = applied /\ SendGraceful
    \/ calls = applied /\ LoopCheck
    \/ calls = applied /\ Sleep
    \/ calls = applied /\ Poll
    \/ StubApplies
    \/ NextCall

StubSpec == Init /\ [][StubNext]_vars

----------------------------------------------------------------------------
(* Two tool invocations in flight at once on the HTTP+SSE server: each POST  *)
(* /message runs its own async call of modifyVM or powerOffVM, and the calls *)
(* interleave at every await.  modifyVM is called with shutdown_if_running   *)
(* and without waiting (wait_timeout = 0), powerOffVM without waiting; the   *)
(* backend answers every request and applies the power action it receives.   *)

\* executeTool: a call of modify_vm or of power_off_vm begins
RaceInvoke(p) ==
    /\ procs[p].pc = "idle"
    /\ \/ \E c \in Opt({2, 4}), r \in Opt({2048, 4096}) :
             /\ ~NothingToModify([cpu_cores |-> c, ram_mb |-> r])
             /\ procs' = [procs EXCEPT
                             ![p] = [NoProc EXCEPT
                                        !.tool = "modify_vm", !.pc = "m_getvm",
                                        !.args = [cpu_cores |-> c, ram_mb |-> r]]]
       \/ procs' = [procs EXCEPT
                       ![p] = [NoProc EXCEPT
                                  !.tool = "power_off_vm", !.pc = "po_status"]]
    /\ UNCHANGED <<toolVars, catalogVars, reqVars, history, applied, twin, drive>>

\* the reads: getVM and getVMStatus of modifyVM, getVMStatus of powerOffVM,
\* and the branch each takes on the running flag it read
RaceRead(p) ==
    /\ procs[p].pc \in {"m_getvm", "m_status", "po_status"}
    /\ LET s == HttpGetVMStatus(statuses, vm)
           after == CASE procs[p].pc = "m_getvm" -> "m_status"
                      [] procs[p].pc = "m_status" ->
                            IF s.running THEN "po_status" ELSE "m_update"
                      [] procs[p].pc = "po_status" ->
                            IF ~AlreadyStopped(s) THEN "po_action"
                            ELSE IF procs[p].tool = "modify_vm" THEN "m_update"
                            ELSE "done"
       IN procs' = [procs EXCEPT
                       ![p].pc = after,
                       ![p].saw = IF procs[p].pc = "m_getvm" \/ @ # {}
                                  THEN @ ELSE {s.running}]
    /\ UNCHANGED <<toolVars, catalogVars, reqVars, history, applied, twin, drive>>

\* await this.vmAction(id, "poweroff") and the return without waiting
RacePowerOff(p) ==
    /\ procs[p].pc = "po_action"
    /\ statuses' = [i \in 1..Len(statuses) |->
                       IF statuses[i].machine = vm.machine
                       THEN StatusEntry(vm.machine, FALSE)
                       ELSE statuses[i]]
    /\ calls' = Bump(calls, "poweroff")
    /\ procs' = [procs EXCEPT
                    ![p].pc = IF procs[p].tool = "modify_vm"
                              THEN "m_update" ELSE "done"]
    /\ UNCHANGED <<catalogVars, reqVars, history, applied, twin, drive, impl, vm, now, drift,
                   pc, callVars, caller, poVars, reads, modVars, lastUpdate,
                   result>>

\* the update held back until no other invocation is in flight
RaceUpdate_Serialized(p) ==
    /\ procs[p].pc = "m_update"
    /\ \A q \in DOMAIN procs \ {p} : procs[q].pc \in {"idle", "done"}
    /\ vm' = ApplyUpdate(vm, Changes(procs[p].args))
    /\ lastUpdate' = Changes(procs[p].args)
    /\ calls' = Bump(calls, "vms_put")
    /\ procs' = [procs EXCEPT ![p].pc = "done", ![p].order = calls'["vms_put"]]
    /\ UNCHANGED <<catalogVars, reqVars, history, applied, twin, drive, impl, statuses, now,
                   drift, pc, callVars, caller, poVars, reads, modVars, result>>

\* modifyVM: the PUT request with the changes of this call
RaceUpdate(p) ==
    /\ procs[p].pc = "m_update"
    /\ vm' = ApplyUpdate(vm, Changes(procs[p].args))
    /\ lastUpdate' = Changes(procs[p].args)
    /\ calls' = Bump(calls, "vms_put")
    /\ procs' = [procs EXCEPT ![p].pc = "done", ![p].order = calls'["vms_put"]]
    /\ UNCHANGED <<catalogVars, reqVars, history, applied, twin, drive, impl, statuses, now,
                   drift, pc, callVars, caller, poVars, reads, modVars, result>>

RaceInit ==
    /\ impl = "http"
    /\ statuses \in StatusLists
    /\ ToolsIdle
    /\ CatalogIdle
    /\ RequestIdle
    /\ ExtIdle

RaceNext ==
    \/ \E p \in DOMAIN procs : RaceInvoke(p)
    \/ \E p \in DOMAIN procs : RaceRead(p)
    \/ \E p \in DOMAIN procs : RacePowerOff(p)
    \/ \E p \in DOMAIN procs : RaceUpdate(p)

RaceSpec == RaceInit /\ [][RaceNext]_vars

----------------------------------------------------------------------------
(* The catalog boundary.  One message is handed to the stdio server          *)
(* (src/src/index.js, first VergeOSAPI class), to the HTTP+SSE server and to *)
(* the direct-connection server, against one backend: the list `statuses`,  *)
(* the VM row `vm` and the set `failing` of endpoints that answer with an    *)
(* error.  A run is the sequence of backend requests a method sent and what  *)
(* it returned or threw.                                                     *)

ApiError == [thrown |-> "API Error"]
Run(reqs, out) == [reqs |-> reqs, out |-> out]

\* await request(path): one backend request, its JSON or the error thrown
Request(e, json) == Run(<<e>>, IF e \in failing THEN ApiError ELSE json)

\* two awaits in sequence: the second is not reached when the first throws
AndThen(r, n) == IF Threw(r.out) THEN r ELSE Run(r.reqs \o n.reqs, n.out)

\* await Promise.all([request(a), request(b)]): both requests are sent
PromiseAll(a, b, json) ==
    Run(<<a, b>>, IF failing \cap {a, b} # {} THEN ApiError ELSE json)

UnknownTool == Run(<<>>, [thrown |-> "Unknown tool"])

\* the row of list_vms: the stdio server returns the backend row, the other
\* two add the running flag and a status text
VmRow(s) ==
    [machine |-> vm.machine, cpu_cores |-> vm.cpu_cores, ram |-> vm.ram,
     running |-> s.running, status |-> s.power_state]

(* the stdio server *)

\* the switch of the CallTool handler; every method of the stdio server's
\* VergeOSAPI used here is one request whose JSON is handed back
StdioSwitch(name) ==
    CASE name = "power_on_vm" -> Request("poweron", ActionResponse("poweron"))
      [] name = "reset_vm" -> Request("reset", ActionResponse("reset"))
      [] name = "list_vms" -> Request("vms_list", [rows |-> <<vm>>])
      [] name = "list_networks" -> Request("vnets", [data |-> "vnets"])
      [] name = "get_cluster_status" ->
            Request("cluster_status", [data |-> "cluster_status"])
      [] name = "get_alarms" -> Request("alarms", [data |-> "alarms"])
      [] OTHER -> UnknownTool

\* the switch of the ReadResource handler
StdioResourceSwitch(uri) ==
    CASE uri = "vergeos://cluster/status" ->
            Request("cluster_status", [data |-> "cluster_status"])
      [] uri = "vergeos://vms/list" -> Request("vms_list", [rows |-> <<vm>>])
      [] uri = "vergeos://networks/list" -> Request("vnets", [data |-> "vnets"])
      [] uri = "vergeos://alarms/active" -> Request("alarms", [data |-> "alarms"])
      [] OTHER -> Run(<<>>, [thrown |-> "Unknown resource"])

(* the HTTP+SSE server *)

HttpStatusRun ==
    AndThen(Request("vms_get", [data |-> "vms_get"]),
            Request("machine_status", HttpGetVMStatus(statuses, vm)))

HttpPowerOnVM ==
    LET s == HttpStatusRun
    IN IF Threw(s.out) THEN s
       ELSE IF PowerOnRefuses(s.out) THEN Run(s.reqs, AlreadyRunningResult(s.out))
       ELSE AndThen(s, Request("poweron", ActionSentResult(s.out, "poweron")))

HttpResetVM ==
    LET s == HttpStatusRun
    IN IF Threw(s.out) THEN s
       ELSE IF ResetRefuses(s.out) THEN Run(s.reqs, NotRunningResult(s.out))
       ELSE AndThen(s, Request("reset", ActionSentResult(s.out, "reset")))

\* addDrive: the two argument checks come before the request
HttpAddDrive(a) ==
    IF a.name = Absent
    THEN Run(<<>>, [success |-> FALSE, error |-> "Drive name is required"])
    ELSE IF ~Truthy(a.size_gb) \/ Default(a.size_gb, 0) < 1
    THEN Run(<<>>, [success |-> FALSE,
                    error |-> "Size in GB is required and must be at least 1 GB"])
    ELSE Request("drives_post",
                 [success |-> TRUE, name |-> a.name, size_gb |-> a.size_gb,
                  note |-> "The VM may need to be restarted to detect the new drive"])

\* createVMSnapshot: getVM (a Promise.all of two requests) comes before the
\* check of the name
HttpCreateVMSnapshot(a) ==
    LET g == PromiseAll("vms_get", "machine_status",
                        VmRow(HttpGetVMStatus(statuses, vm)))
    IN IF Threw(g.out) THEN g
       ELSE IF a.name = Absent
       THEN Run(g.reqs, [thrown |-> "Snapshot name is required"])
       ELSE AndThen(g, Request("snapshots_post",
                               [success |-> TRUE, message |-> "Snapshot created"]))

\* resizeDrive: the requested size is compared with the current size rounded
\* to whole GB
HttpResizeDrive(a) ==
    LET d == Request("drives_get", drive)
        currentSizeGB == (drive.disksize + GiB \div 2) \div GiB
        newSizeBytes == Default(a.new_size_gb, 0) * (GiB \div 4)
    IN IF Threw(d.out) THEN d
       ELSE IF Default(a.new_size_gb, 0) <= 4 * currentSizeGB
       THEN Run(d.reqs, [success |-> FALSE,
                         error |-> "must be larger than current size",
                         current_size_gb |-> currentSizeGB])
       ELSE AndThen(d, Request("drives_put",
                               [success |-> TRUE,
                                previous_size_gb |-> currentSizeGB,
                                new_size_gb |-> a.new_size_gb,
                                disksize |-> newSizeBytes]))

HttpExecuteTool(name, a) ==
    CASE name = "power_on_vm" -> HttpPowerOnVM
      [] name = "resize_drive" -> HttpResizeDrive(a)
      [] name = "reset_vm" -> HttpResetVM
      [] name = "add_drive" -> HttpAddDrive(a)
      [] name = "create_vm_snapshot" -> HttpCreateVMSnapshot(a)
      [] name = "list_vms" ->
            PromiseAll("vms_list", "machine_status",
                       [rows |-> <<VmRow(HttpGetVMStatus(statuses, vm))>>])
      [] name = "list_networks" ->
            Request("vnets", [data |-> "vnets", view |-> "summary"])
      [] name = "get_cluster_status" ->
            Request("cluster_status", [data |-> "cluster_status"])
      [] name = "get_alarms" -> Request("alarms", [data |-> "alarms"])
      [] OTHER -> UnknownTool

(* the direct-connection server *)

\* executeTool and the functions it calls: powerOnVM and resetVM are the bare
\* action, addDrive sends its request whatever the arguments, listVMs reads
\* the VMs and then the status list
\* resizeDrive of the direct server compares bytes and throws
DirectResizeDrive(a) ==
    LET d == Request("drives_get", drive)
        new_size_bytes == Default(a.new_size_gb, 0) * (GiB \div 4)
    IN IF Threw(d.out) THEN d
       ELSE IF new_size_bytes <= drive.disksize
       THEN Run(d.reqs, [thrown |-> "New size must be larger than current size"])
       ELSE AndThen(d, Request("drives_put",
                               [success |-> TRUE, new_size_gb |-> a.new_size_gb,
                                disksize |-> new_size_bytes]))

DirectExecuteTool(name, a) ==
    CASE name = "power_on_vm" -> Request("poweron", ActionResponse("poweron"))
      [] name = "resize_drive" -> DirectResizeDrive(a)
      [] name = "reset_vm" -> Request("reset", ActionResponse("reset"))
      [] name = "add_drive" ->
            Request("drives_post",
                    [success |-> TRUE, name |-> a.name, size_gb |-> a.size_gb])
      [] name = "list_vms" ->
            AndThen(Request("vms_list", [data |-> "vms_list"]),
                    Request("machine_status",
                            [rows |-> <<VmRow(DirectGetVMStatus(statuses, vm))>>]))
      [] name = "list_networks" ->
            Request("vnets", [data |-> "vnets", view |-> "summary without running"])
      [] name = "get_cluster_status" ->
            Request("cluster_status", [data |-> "cluster_status"])
      [] name = "get_alarms" -> Request("alarms", [data |-> "alarms"])
      [] OTHER -> UnknownTool

(* framing *)

\* a handler without the catch block
ToolResponse_NoCatch(out) ==
    IF Threw(out) THEN [escaped |-> out.thrown] ELSE [content |-> out]

\* try { return { content: JSON.stringify(result) } }
\* catch (error) { return { content: `Error: ...`, isError: true } }
ToolResponse(out) ==
    IF Threw(out)
    THEN [content |-> [error |-> out.thrown], isError |-> TRUE]
    ELSE [content |-> out]

\* ReadResource of the stdio server: the catch block throws again
ResourceResponse(out) ==
    IF Threw(out)
    THEN [escaped |-> "Failed to read resource"]
    ELSE [contents |-> out]

Serve(a, run, response) ==
    /\ served[a] = NotServed
    /\ served' = [served EXCEPT
                     ![a] = [reqs |-> run.reqs, out |-> run.out,
                             response |-> response]]
    /\ UNCHANGED <<toolVars, message, failing, reqVars, extVars>>

\* CallToolRequestSchema handler of the stdio server
StdioCallTool ==
    /\ message.method = "tools/call"
    /\ LET run == StdioSwitch(message.name)
       IN Serve("stdio", run, ToolResponse(run.out))

\* ReadResourceRequestSchema handler of the stdio server
StdioReadResource ==
    /\ message.method = "resources/read"
    /\ LET run == StdioResourceSwitch(message.name)
       IN Serve("stdio", run, ResourceResponse(run.out))

\* POST /message of the HTTP+SSE server
HttpPostMessage ==
    IF message.method = "tools/call"
    THEN LET run == HttpExecuteTool(message.name, message.arguments)
         IN Serve("http", run, ToolResponse(run.out))
    ELSE Serve("http", Run(<<>>, [unhandled |-> TRUE]),
               [error |-> "Method not found"])

\* CallToolRequestSchema handler of the direct server
DirectCallTool ==
    /\ message.method = "tools/call"
    /\ LET run == DirectExecuteTool(message.name, message.arguments)
       IN Serve("direct", run, ToolResponse(run.out))

CatalogInit ==
    /\ impl = "http"
    /\ statuses \in StatusLists
    /\ ToolsIdle
    /\ message \in Messages
    /\ failing \in Opt(CatalogEndpoints)
    /\ served = [a \in Adapters |-> NotServed]
    /\ RequestIdle
    /\ history = <<>>
    /\ applied = NoCalls
    /\ procs = [p \in {1, 2} |-> NoProc]
    /\ twin = "none"
    /\ drive \in [disksize : {10 * GiB, 10 * GiB + 400, 10 * GiB + 600}]

CatalogNext ==
    \/ StdioCallTool
    \/ StdioReadResource
    \/ HttpPostMessage
    \/ DirectCallTool

CatalogSpec == CatalogInit /\ [][CatalogNext]_vars

----------------------------------------------------------------------------
(* The request layer: getToken and request of the stdio and HTTP+SSE        *)
(* servers, getToken and apiRequest of the direct server, getToken and the  *)
(* first fetch of the connectivity script (src/unnamed/part_000).  The       *)
(* backend answers a login with a key or without one, and an API request    *)
(* with any status of Statuses.                                             *)

\* if (this.token), if (authToken)
Cached == token.kind # "none"

\* a backend call begins; a credential left by an earlier call is LoginCred(0)
StartRequest ==
    /\ rpc \in {"idle", "done"}
    /\ rpc' = "token"
    /\ wire' = <<>>
    /\ answers' = <<>>
    /\ outcome' = NoResult
    /\ token' = IF token.kind = "login" THEN LoginCred(0) ELSE token
    /\ UNCHANGED <<toolVars, catalogVars, extVars, config>>

\* getToken up to the login request
GetToken ==
    /\ rpc = "token"
    /\ IF impl = "script"
       THEN /\ rpc' = IF config.pair THEN "login" ELSE "fetch"
            /\ UNCHANGED outcome
       ELSE IF Cached
       THEN rpc' = "fetch" /\ UNCHANGED outcome
       ELSE IF ~config.pair
       THEN /\ rpc' = "done"
            /\ outcome' = [thrown |-> "VergeOS credentials not configured"]
       ELSE rpc' = "login" /\ UNCHANGED outcome
    /\ UNCHANGED <<toolVars, catalogVars, extVars, config, token, wire, answers>>

\* POST /api/sys/tokens and what getToken does with the answer: a success
\* with the key, a success without it, a refusal with a JSON body, or a body
\* that response.json() cannot parse.  Only the direct server tests
\* response.ok; data.$key of a body without the key is undefined
Login ==
    /\ rpc = "login"
    /\ wire' = Append(wire, [to |-> "login", cookie |-> NoCred])
    /\ \E ans \in {"key", "nokey", "refused", "garbled"} :
          IF impl = "direct" /\ ans = "refused"
          THEN /\ rpc' = "done"
               /\ outcome' = [thrown |-> "Auth failed", status |-> Unauthorized]
               /\ UNCHANGED token
          ELSE IF ans = "garbled"
          THEN /\ rpc' = "done"
               /\ outcome' = [thrown |-> "invalid json response body"]
               /\ UNCHANGED token
          ELSE /\ token' = IF ans = "key"
                         THEN LoginCred(1 + Len(SelectSeq(wire,
                                                LAMBDA w : w.to = "login")))
                         ELSE NoCred
               /\ rpc' = "fetch"
               /\ UNCHANGED outcome
    /\ UNCHANGED <<toolVars, catalogVars, extVars, config, answers>>

\* the API request and what request / apiRequest does with the response: the
\* error of the stdio and HTTP+SSE servers names the status and the body, the
\* error of the direct server the status and the status text
Fetch ==
    /\ rpc = "fetch"
    /\ Len(answers) < MaxAttempts
    /\ wire' = Append(wire, [to |-> "api", cookie |-> token])
    /\ \E st \in Statuses :
          /\ answers' = Append(answers, st)
          /\ IF impl = "script"
             THEN /\ rpc' = "done"
                  /\ outcome' = [unchecked |-> st]
                  /\ UNCHANGED token
             ELSE IF impl = "direct" /\ st = Unauthorized
             THEN /\ token' = NoCred
                  /\ rpc' = "token"
                  /\ UNCHANGED outcome
             ELSE /\ rpc' = "done"
                  /\ outcome' = IF ResponseOk(st) THEN [json |-> TRUE]
                                ELSE IF impl = "direct"
                                THEN [thrown |-> "API Error", status |-> st,
                                      statusText |-> <<"statusText", st>>]
                                ELSE [thrown |-> "API Error", status |-> st,
                                      body |-> <<"body", st>>]
                  /\ UNCHANGED token
    /\ UNCHANGED <<toolVars, catalogVars, extVars, config>>

\* getVM and listVMs of the HTTP+SSE server: Promise.all([request(a),
\* request(b)]).  Both calls of request run up to their first await before any
\* response arrives, so both evaluate `if (this.token)` on the same token
StartPair ==
    /\ impl = "http"
    /\ rpc \in {"idle", "done"}
    /\ twin \in {"none", "done", "failed"}
    /\ wire' = <<>>
    /\ answers' = <<>>
    /\ token' = IF token.kind = "login" THEN LoginCred(0) ELSE token
    /\ IF Cached
       THEN rpc' = "fetch" /\ twin' = "fetch" /\ outcome' = NoResult
       ELSE IF ~config.pair
       THEN /\ rpc' = "done" /\ twin' = "failed"
            /\ outcome' = [thrown |-> "VergeOS credentials not configured"]
       ELSE rpc' = "login" /\ twin' = "login" /\ outcome' = NoResult
    /\ UNCHANGED <<toolVars, catalogVars, history, applied, procs, drive, config>>

\* the login request of the second call and `this.token = data.$key`
TwinLogin ==
    /\ twin = "login"
    /\ wire' = Append(wire, [to |-> "login", cookie |-> NoCred])
    /\ \E ans \in {"key", "nokey", "refused", "garbled"} :
          IF ans = "garbled"
          THEN twin' = "failed" /\ UNCHANGED token
          ELSE /\ token' = IF ans = "key"
                         THEN LoginCred(1 + Len(SelectSeq(wire,
                                                LAMBDA w : w.to = "login")))
                         ELSE NoCred
               /\ twin' = "fetch"
    /\ UNCHANGED <<toolVars, catalogVars, history, applied, procs, drive, config, rpc,
                   answers, outcome>>

\* the API request of the second call
TwinFetch ==
    /\ twin = "fetch"
    /\ wire' = Append(wire, [to |-> "api", cookie |-> token])
    /\ \E st \in Statuses : twin' = IF ResponseOk(st) THEN "done" ELSE "failed"
    /\ UNCHANGED <<toolVars, catalogVars, history, applied, procs, drive, config, token,
                   rpc, answers, outcome>>

RequestInit ==
    /\ impl \in {"stdio", "http", "direct", "script"}
    /\ statuses = <<>>
    /\ ToolsIdle
    /\ CatalogIdle
    /\ config \in [pair : BOOLEAN, static : BOOLEAN]
    /\ impl = "direct" => config.pair
    /\ token = IF impl \in {"stdio", "script"} /\ config.static
               THEN StaticCred ELSE NoCred
    /\ rpc = "idle"
    /\ wire = <<>>
    /\ answers = <<>>
    /\ outcome = NoResult
    /\ ExtIdle

RequestNext ==
    \/ StartRequest
    \/ GetToken
    \/ Login
    \/ Fetch
    \/ StartPair
    \/ TwinLogin
    \/ TwinFetch

RequestSpec == RequestInit /\ [][RequestNext]_vars

----------------------------------------------------------------------------
(* Properties *)

\* what powerOffVM returned, at the tool boundary or to modifyVM
PoResult == IF caller = "modify" THEN shutdownResult ELSE result

GracefulSent == calls["poweroff"] + calls["shutdown"]
PowerActionsSent == SumOver(calls, ActionVerbs)
IsFailure(r) == Threw(r) \/ (Returned(r) /\ ~r.success)

\* C1: a power_off_vm invocation whose first status read reports the VM not
\* running returns success with current_state and was_running = false, has sent
\* no poweroff, shutdown or kill action and has made no loop poll.
C1_StoppedVMIsLeftAlone ==
    (tool = "power_off_vm" /\ pc = "done" /\ Returned(result)
        /\ reads.first = {FALSE})
    => /\ result.success
       /\ Has(result, "current_state")
       /\ Has(result, "was_running") /\ result.was_running = FALSE
       /\ GracefulSent = 0 /\ calls["kill"] = 0
       /\ polls = 0

\* C2: at most one kill action is sent per invocation, and when powerOffVM
\* returns after the loop timed out with force_after_timeout set, exactly one
\* kill was sent and the result is success with forced = true, whatever the
\* last status read reported.
C2_ForcedAfterTimeout ==
    /\ calls["kill"] <= 1
    /\ (timedOut /\ opts.force_after_timeout /\ Returned(PoResult))
       => /\ calls["kill"] = 1
          /\ PoResult.success
          /\ Has(PoResult, "forced") /\ PoResult.forced

\* C2 witness: a forced result whose final status read still reported running
C2_Witness ==
    /\ impl = "http" /\ timedOut /\ opts.force_after_timeout
    /\ Returned(PoResult) /\ Has(PoResult, "forced")
    /\ PoResult.final_state = "running" /\ reads.last = {TRUE}

\* C3: when powerOffVM returns after the loop timed out without
\* force_after_timeout, the result is a failure carrying current_state and the
\* hint that names force_after_timeout, and no kill action was sent.
C3_TimeoutWithoutForceFails ==
    (timedOut /\ ~opts.force_after_timeout /\ Returned(PoResult))
    => /\ ~PoResult.success
       /\ Has(PoResult, "current_state")
       /\ Has(PoResult, "hint")
       /\ calls["kill"] = 0

\* C4: a loop poll made when the elapsed time has reached the clamped timeout
\* and reporting the VM not running ends powerOffVM with a graceful success: no
\* timeout, no kill action and no forced flag, also with force_after_timeout.
C4_BoundaryStopIsGraceful ==
    (polls > 0 /\ lastPoll.elapsed >= maxWait /\ ~lastPoll.running)
    => /\ Returned(PoResult)
       /\ PoResult.success
       /\ ~Has(PoResult, "forced")
       /\ ~timedOut
       /\ calls["kill"] = 0

\* C4 witness: the VM is seen stopped exactly at the deadline, force requested
C4_Witness ==
    /\ pc = "done" /\ opts.force_after_timeout
    /\ polls > 0 /\ lastPoll.elapsed = maxWait /\ ~lastPoll.running

\* C5: on the HTTP+SSE server every loop poll comes at least 3 s after the
\* previous one, and the first poll reporting not running ends powerOffVM with
\* success, final_state and elapsed_seconds, no kill and no forced flag; with
\* wait_timeout = 6 and the stop seen at elapsed 6 s, elapsed_seconds is 6.
C5_PollUntilStopped ==
    /\ polls > 0 => lastPoll.elapsed >= polls * 3000
    /\ (impl = "http" /\ polls > 0 /\ ~lastPoll.running)
       => /\ Returned(PoResult)
          /\ PoResult.success
          /\ Has(PoResult, "final_state") /\ PoResult.final_state # "running"
          /\ Has(PoResult, "elapsed_seconds")
          /\ PoResult.elapsed_seconds * 1000 <= lastPoll.elapsed + 500
          /\ PoResult.elapsed_seconds * 1000 > lastPoll.elapsed - 500
          /\ ~Has(PoResult, "forced")
          /\ calls["kill"] = 0
          /\ (opts.wait_timeout = 6 /\ lastPoll.elapsed = 6000)
             => PoResult.elapsed_seconds = 6 /\ polls = 2

\* C5 witness: the scenario of the specification
C5_Witness ==
    /\ impl = "http" /\ tool = "power_off_vm" /\ pc = "done"
    /\ opts.wait_timeout = 6 /\ ~opts.force_after_timeout
    /\ polls = 2 /\ lastPoll.elapsed = 6000 /\ ~lastPoll.running
    /\ result.final_state = "stopped" /\ result.elapsed_seconds = 6

\* C6: the timeout in force lies in [0, 300] seconds, it is 300 seconds for
\* every wait_timeout above 300, no poll iteration starts once 300 seconds
\* have elapsed, and a wait_timeout above 300 times out at the first loop check
\* made 300 seconds or more after the start.
C6_LoopStartsBeforeCap ==
    (pc = "po_loop" /\ pc' = "po_sleep") => now - startTime < 300 * 1000

C6_WaitIsClamped ==
    /\ [](/\ maxWait >= 0 /\ maxWait <= 300 * 1000
          /\ (pc \in {"po_loop", "po_sleep", "po_poll"} /\ opts.wait_timeout > 300)
             => maxWait = 300 * 1000
          /\ (timedOut /\ opts.wait_timeout > 300)
             => /\ lastPoll.elapsed + drift * LatencyStep >= 300 * 1000
                /\ lastPoll.elapsed - 3000 < 300 * 1000)
    /\ [][C6_LoopStartsBeforeCap]_vars

\* C6 witness: wait_timeout = 301 timed out after the 100 polls of 300 seconds
C6_Witness ==
    /\ opts.wait_timeout > 300 /\ timedOut /\ polls = 100
    /\ lastPoll.elapsed = 300 * 1000

\* C7: a power_off_vm invocation with wait_timeout absent or <= 0 that sent
\* the graceful action returns success with a note that no wait was requested,
\* having sent exactly one graceful action, no kill action, and no status read
\* after the action.
C7_NoWaitIsFireAndForget ==
    (tool = "power_off_vm" /\ pc = "done" /\ Returned(result)
        /\ opts.wait_timeout <= 0 /\ GracefulSent > 0)
    => /\ result.success
       /\ Has(result, "note")
       /\ GracefulSent = 1
       /\ calls["kill"] = 0
       /\ polls = 0
       /\ calls["machine_status"] <= 1

\* C8: a modify_vm invocation with cpu_cores and ram_mb both absent sends no
\* backend request at all and ends with a validation failure.
C8_NothingToModifyFailsFast ==
    (tool = "modify_vm" /\ args.cpu_cores = Absent /\ args.ram_mb = Absent)
    => /\ TotalCalls = 0
       /\ pc \in {"m_start", "done"}
       /\ pc = "done"
          => /\ IsFailure(result)
             /\ IF Returned(result)
                THEN result.error = "Must specify cpu_cores and/or ram_mb to modify"
                ELSE result.thrown = "Specify cpu_cores and/or ram_mb"

\* C8 witness: the rejected request asked for a shutdown
C8_Witness ==
    /\ tool = "modify_vm" /\ pc = "done"
    /\ args.cpu_cores = Absent /\ args.ram_mb = Absent
    /\ args.shutdown_if_running = {TRUE}

\* C9: a modify_vm invocation that read the VM as running, without
\* shutdown_if_running, returns a failure with current_cpu, current_ram_mb,
\* requested_cpu, requested_ram_mb and a hint, and has sent no update request
\* and no power action.
C9_RunningRefusalCarriesContext ==
    (tool = "modify_vm" /\ pc = "done" /\ mstatus.running
        /\ ~Default(args.shutdown_if_running, FALSE))
    => /\ Returned(result) /\ ~result.success
       /\ Has(result, "current_cpu") /\ result.current_cpu = vm.cpu_cores
       /\ Has(result, "current_ram_mb") /\ result.current_ram_mb = vm.ram
       /\ Has(result, "requested_cpu") /\ Has(result, "requested_ram_mb")
       /\ Truthy(args.cpu_cores) => result.requested_cpu = Default(args.cpu_cores, 0)
       /\ Truthy(args.ram_mb) => result.requested_ram_mb = Default(args.ram_mb, 0)
       /\ Has(result, "hint")
       /\ calls["vms_put"] = 0
       /\ PowerActionsSent = 0

\* C10: once powerOffVM has returned a failure to modifyVM, no update request
\* is sent, and modifyVM returns a failure that carries the inner result and
\* its error.
C10_ShutdownFailurePropagates ==
    (tool = "modify_vm" /\ caller = "modify" /\ Returned(shutdownResult)
        /\ ~shutdownResult.success)
    => /\ calls["vms_put"] = 0
       /\ pc \in {"m_after", "done"}
       /\ pc = "done"
          => /\ Returned(result) /\ ~result.success
             /\ Has(result, "shutdown_result")
             /\ result.shutdown_result = shutdownResult
             /\ Has(shutdownResult, "error")
             /\ result.error[2] = shutdownResult.error

\* C11: a modify_vm invocation sends at most one update request, a successful
\* one exactly one; the body of the update carries cpu_cores only when the
\* invocation requested cpu_cores and ram only when it requested ram_mb, with
\* the requested value, and a field that was not requested keeps its backend
\* value.
C11_UpdateCarriesOnlyRequested ==
    /\ calls["vms_put"] <= 1
    /\ tool = "modify_vm"
       => /\ lastUpdate.cpu_cores # Absent => lastUpdate.cpu_cores = args.cpu_cores
          /\ lastUpdate.ram # Absent => lastUpdate.ram = args.ram_mb
          /\ args.cpu_cores = Absent => vm.cpu_cores = InitialVm.cpu_cores
          /\ args.ram_mb = Absent => vm.ram = InitialVm.ram
    /\ (tool = "modify_vm" /\ pc = "done" /\ Returned(result) /\ result.success)
       => calls["vms_put"] = 1

\* C11 witness: only ram_mb was requested, the update went through and changed
\* the memory of the VM alone
C11_Witness ==
    /\ tool = "modify_vm" /\ pc = "done" /\ Returned(result) /\ result.success
    /\ args.cpu_cores = Absent /\ args.ram_mb = {2048}
    /\ lastUpdate = [cpu_cores |-> Absent, ram |-> {2048}]
    /\ vm.ram = 2048 /\ vm.cpu_cores = InitialVm.cpu_cores

\* C12: modify_vm never sends a poweron action, and a successful modify_vm
\* returns a note that tells the caller to start the VM with power_on_vm.
C12_NeverRestarts ==
    tool = "modify_vm"
    => /\ calls["poweron"] = 0
       /\ (pc = "done" /\ Returned(result) /\ result.success)
          => Has(result, "note")

\* C13: on the HTTP+SSE server power_on_vm and reset_vm make one status read
\* and send at most one action, of their own verb, with no poll; power_on_vm
\* of a VM read as running and reset_vm of a VM read as not running return a
\* failure with the current state and send no action; after the opposite read
\* the invocation ends with exactly one action sent.
C13_PreCheckedDispatch ==
    (impl = "http" /\ tool \in {"power_on_vm", "reset_vm"})
    => LET verb == IF tool = "power_on_vm" THEN "poweron" ELSE "reset"
           refusedOn == IF tool = "power_on_vm" THEN {TRUE} ELSE {FALSE}
       IN /\ PowerActionsSent = calls[verb]
          /\ calls[verb] <= 1
          /\ polls = 0 /\ calls["machine_status"] <= 1
          /\ reads.first = refusedOn
             => /\ pc = "done" /\ Returned(result) /\ ~result.success
                /\ Has(result, "current_state")
                /\ result.current_state = status.power_state
                /\ calls[verb] = 0
          /\ (pc = "done" /\ reads.first # {} /\ reads.first # refusedOn)
             => /\ calls[verb] = 1
                /\ Returned(result) => result.success

\* C13 witness: power_on_vm refused on a running VM
C13_Witness ==
    /\ impl = "http" /\ tool = "power_on_vm" /\ pc = "done"
    /\ reads.first = {TRUE} /\ ~result.success
    /\ result.current_state = "running" /\ TotalCalls = 2

\* C14: whatever the tool name, the arguments and the failing endpoint, the
\* response of the stdio, HTTP+SSE and direct tool handlers is a content
\* payload, flagged isError exactly when the tool threw; no exception leaves
\* the handler.
C14_NoExceptionEscapes ==
    \A a \in Adapters :
        (message.method = "tools/call" /\ served[a] # NotServed)
        => LET r == served[a].response
           IN /\ Has(r, "content")
              /\ ~Has(r, "escaped")
              /\ Threw(served[a].out) <=> (Has(r, "isError") /\ r.isError)

\* C14 witness: the backend refuses the poweron action and each of the three
\* handlers answers with an error-flagged payload
C14_Witness ==
    /\ message.method = "tools/call" /\ message.name = "power_on_vm"
    /\ failing = {"poweron"}
    /\ \A a \in Adapters :
          served[a].response =
             [content |-> [error |-> "API Error"], isError |-> TRUE]

\* C15: on the HTTP+SSE and the direct server a backend call sends at most two
\* API requests; a call whose first response is 401 (and whose new login is
\* accepted) ends after a login and a second request that carries another
\* credential; a second 401 ends the call with an error.
C15_OneShotRefresh ==
    impl \in {"http", "direct"}
    => /\ Len(answers) <= 2
       /\ (rpc = "done" /\ answers # <<>> /\ answers[1] = Unauthorized
              /\ ~(Threw(outcome) /\ outcome.thrown = "Auth failed"))
          => /\ Len(answers) = 2
             /\ Len(wire) >= 3
             /\ wire[Len(wire) - 1].to = "login"
             /\ wire[Len(wire)].cookie # wire[1].cookie
       /\ (Len(answers) = 2 /\ answers[2] = Unauthorized)
          => rpc = "done" /\ Threw(outcome)

\* C16: on the stdio, HTTP+SSE and direct servers a response whose status is
\* neither a success nor 401 is the last response of the call, and the call
\* ends with an error that carries that status and the response body.
C16_BackendErrorCarriesStatusAndBody ==
    impl \in {"stdio", "http", "direct"}
    => \A i \in 1..Len(answers) :
          (~ResponseOk(answers[i]) /\ answers[i] # Unauthorized)
          => /\ i = Len(answers)
             /\ rpc = "done" /\ Threw(outcome)
             /\ outcome.status = answers[i]
             /\ Has(outcome, "body") /\ outcome.body = <<"body", answers[i]>>

\* C18: with both the username/password pair and the static token configured,
\* no API request of the stdio server or of the connectivity script carries
\* the static token.
C18_PairBeforeStaticToken ==
    (impl \in {"stdio", "script"} /\ config.pair /\ config.static)
    => \A i \in 1..Len(wire) :
          wire[i].to = "api" => wire[i].cookie # StaticCred

\* C17: on the HTTP+SSE server an add_drive invocation without name or size_gb
\* and a create_vm_snapshot invocation without name send no backend request
\* and return a failure result.
C17_ValidationBeforeBackend ==
    (/\ message.method = "tools/call"
     /\ \/ message.name = "add_drive"
           /\ Absent \in {message.arguments.name, message.arguments.size_gb}
        \/ message.name = "create_vm_snapshot"
           /\ message.arguments.name = Absent
     /\ served["http"] # NotServed)
    => /\ served["http"].reqs = <<>>
       /\ Returned(served["http"].out)
       /\ ~served["http"].out.success

\* C19: with no endpoint failing, a read of each of the four resources on the
\* stdio and on the HTTP+SSE transport answers with contents, and the contents
\* are what the corresponding tool returns without arguments.
C19_ResourcesMatchTools ==
    LET uri == message.name
        t == CASE uri = "vergeos://cluster/status" -> "get_cluster_status"
               [] uri = "vergeos://vms/list" -> "list_vms"
               [] uri = "vergeos://networks/list" -> "list_networks"
               [] uri = "vergeos://alarms/active" -> "get_alarms"
        ofTool(a) == IF a = "stdio" THEN StdioSwitch(t)
                     ELSE HttpExecuteTool(t, NoToolArgs)
    IN \A a \in {"stdio", "http"} :
          (message.method = "resources/read" /\ failing = {}
              /\ served[a] # NotServed)
          => /\ Has(served[a].response, "contents")
             /\ served[a].response.contents = ofTool(a).out

\* C20: once the three adapters have served the same tool call against the
\* same backend, they have sent the same sequence of backend requests and
\* given the same response.
C20_AdaptersAgree ==
    (message.method = "tools/call" /\ \A a \in Adapters : served[a] # NotServed)
    => \A a, b \in Adapters :
          /\ served[a].reqs = served[b].reqs
          /\ served[a].response = served[b].response

\* C21: against the stub backend, once a power_on_vm call and then a
\* power_off_vm call have ended without an error and the stub has dealt with
\* their requests, a read of the power status of the VM reports running: false.
C21_OnThenOffReadsStopped ==
    (/\ history # <<>>
     /\ history[Len(history)].tool = "power_on_vm"
     /\ ~history[Len(history)].threw
     /\ tool = "power_off_vm" /\ pc = "done" /\ ~Threw(result)
     /\ calls = applied)
    => /\ ~HttpGetVMStatus(statuses, vm).running
       /\ ~DirectGetVMStatus(statuses, vm).running

\* C21 witness: on the HTTP+SSE server the VM was stopped, power_on_vm started
\* it and power_off_vm, told to wait, saw it stopped at its first poll
C21_Witness ==
    /\ impl = "http"
    /\ history = <<[tool |-> "power_on_vm", threw |-> FALSE, sent |-> {"poweron"}]>>
    /\ tool = "power_off_vm" /\ pc = "done" /\ ~Threw(result)
    /\ calls = applied
    /\ calls["poweroff"] = 1 /\ polls = 1 /\ ~lastPoll.running
    /\ result.final_state = "stopped"

\* C22: with two invocations of modify_vm or power_off_vm in flight for the
\* same VM, an invocation that has begun and not ended can always take its
\* next step, wherever the other one stands; and once an update request that
\* sets a field has been processed, the field holds the value of the latest
\* processed update that set it.
C22_NotSerializedLastWriteWins ==
    /\ \A p \in DOMAIN procs :
          procs[p].pc \notin {"idle", "done"}
          => ENABLED (RaceRead(p) \/ RacePowerOff(p) \/ RaceUpdate(p))
    /\ \A p \in DOMAIN procs :
          LET later(f) == {q \in DOMAIN procs :
                             /\ procs[q].order > procs[p].order
                             /\ Truthy(procs[q].args[f])}
          IN procs[p].order > 0
             => /\ (Truthy(procs[p].args.cpu_cores) /\ later("cpu_cores") = {})
                   => {vm.cpu_cores} = procs[p].args.cpu_cores
                /\ (Truthy(procs[p].args.ram_mb) /\ later("ram_mb") = {})
                   => {vm.ram} = procs[p].args.ram_mb

\* C22 witness: two modify_vm calls both read the VM as running before either
\* powered it off, both sent the poweroff action, and the call that set 2
\* cores was processed after the call that set 4
C22_Witness ==
    /\ \A p \in DOMAIN procs :
          procs[p].tool = "modify_vm" /\ procs[p].pc = "done"
          /\ procs[p].saw = {TRUE}
    /\ calls["poweroff"] = 2
    /\ procs[1].args.cpu_cores = {2} /\ procs[2].args.cpu_cores = {4}
    /\ procs[1].order = 2 /\ procs[2].order = 1
    /\ vm.cpu_cores = 2

\* C23: the poll loop of a powerOffVM call makes at most
\* ceil(min(wait_timeout, 300) / 3) status reads, none when wait_timeout <= 0,
\* and every power_off_vm invocation ends, with a result or an error, whatever
\* the status list does meanwhile.
C23_PowerOffReturns ==
    /\ [](LET w == IF opts.wait_timeout > 300 THEN 300 ELSE opts.wait_timeout
          IN polls <= (IF w <= 0 THEN 0 ELSE (w + 2) \div 3))
    /\ (tool = "power_off_vm") ~> (pc = "done")

\* C23 witness: wait_timeout = 7 and a VM that never stops: the loop made its
\* three polls and the call returned the timeout failure
C23_Witness ==
    /\ tool = "power_off_vm" /\ pc = "done" /\ opts.wait_timeout = 7
    /\ polls = 3 /\ lastPoll.running /\ timedOut
    /\ Returned(result) /\ ~result.success

\* C24: whenever a kill action has been sent in a powerOffVM call, the
\* graceful action was sent before it in the same call, force_after_timeout
\* is true, the wait loop has run out, and the loop made at least one poll,
\* all of which reported the VM running.
C24_KillOnlyAfterGracefulTimeout ==
    calls["kill"] > 0
    => /\ GracefulSent = 1
       /\ opts.force_after_timeout
       /\ timedOut
       /\ polls > 0 /\ lastPoll.running

\* C24 witness: modify_vm shut the VM down on the direct server, the one poll
\* of a 3 s wait saw it running and the kill followed the shutdown action
C24_Witness ==
    /\ impl = "direct" /\ tool = "modify_vm" /\ caller = "modify"
    /\ calls["shutdown"] = 1 /\ calls["kill"] = 1
    /\ opts.wait_timeout = 3 /\ polls = 1 /\ lastPoll.running

\* C25: whenever modify_vm has sent the update request, the latest power
\* status read of the invocation, by modifyVM or by the powerOffVM it called,
\* reported the VM not running.
C25_UpdateOnlyWhenReadStopped ==
    (tool = "modify_vm" /\ calls["vms_put"] > 0) => reads.last = {FALSE}

\* C26: whenever powerOffVM has returned a failure, the latest power status
\* it read reported the VM running.
C26_FailureOnlyIfStillRunning ==
    (/\ tool = "power_off_vm" \/ caller = "modify"
     /\ Returned(PoResult) /\ ~PoResult.success)
    => reads.last = {TRUE}

\* C27: on the HTTP+SSE server a backend call that meets no 401 response
\* contacts the login endpoint at most once, and not at all when a credential
\* was cached before the call began, also when the call is the pair of reads
\* that getVM and listVMs issue together.
C27_LoginAtMostOnce ==
    (impl = "http" /\ \A i \in 1..Len(answers) : answers[i] # Unauthorized)
    => LET logins == Len(SelectSeq(wire, LAMBDA w : w.to = "login"))
       IN /\ logins <= 1
          /\ token = LoginCred(0) => logins = 0

\* C28: on the HTTP+SSE and the direct server no API request goes out without
\* a credential cookie, and a call whose login gave no credential ends with
\* an error.
C28_FailedLoginSendsNothing ==
    impl \in {"http", "direct"}
    => /\ \A i \in 1..Len(wire) :
             wire[i].to = "api" => wire[i].cookie # NoCred
       /\ (rpc = "done" /\ wire # <<>> /\ token = NoCred) => Threw(outcome)

\* C29: on the HTTP+SSE and the direct server a resize_drive call whose
\* requested size in bytes is not larger than the current size of the drive
\* in bytes sends no update request and ends with a failure.
C29_ResizeOnlyGrows ==
    \A a \in {"http", "direct"} :
        (/\ message.method = "tools/call" /\ message.name = "resize_drive"
         /\ served[a] # NotServed
         /\ Default(message.arguments.new_size_gb, 0) * (GiB \div 4)
                <= drive.disksize)
        => /\ \A i \in 1..Len(served[a].reqs) : served[a].reqs[i] # "drives_put"
           /\ IsFailure(served[a].out)

\* C30: a power status read made for a VM (here the one modify_vm makes)
\* returns the running flag and the status label of an entry of the status
\* list whose machine field equals the VM's machine reference, and when no
\* entry matches it reports running false with power state "unknown".
C30_StatusReadMatchesMachine ==
    [][(/\ pc = "m_status"
        /\ calls'["machine_status"] = calls["machine_status"] + 1
        /\ ~Threw(result'))
       => IF \E i \in 1..Len(statuses) : statuses[i].machine = vm.machine
          THEN \E i \in 1..Len(statuses) :
                  /\ statuses[i].machine = vm.machine
                  /\ mstatus'.running = statuses[i].running
                  /\ mstatus'.power_state = statuses[i].status
          ELSE /\ mstatus'.running = FALSE
               /\ mstatus'.power_state = "unknown"]_vars

====
